---- MODULE Spec2Model ----
(***************************************************************************)
(* A model of the Thorlabs KST101 driver of src/MotorDriver.py: the        *)
(* receiver thread (KST101.__recv, KST101.__decode_status), the state it   *)
(* shares with the callers (position, status, their lock), the command     *)
(* and query operations of the class, and the controller that feeds the   *)
(* serial line.                                                            *)
(*                                                                         *)
(* Bytes are the integers 0..255 and a Python byte string is a sequence of *)
(* them.  struct.pack / struct.unpack are modelled by what they compute.   *)
(* TLC's integers are 32-bit signed, so an unsigned 32-bit value (the      *)
(* status word) is carried as its two 16-bit halves [hi, lo].              *)
(***************************************************************************)
EXTENDS Integers, Sequences, FiniteSets, TLC

VARIABLES
  wire,        \* bytes the controller has sent that self.__ser.read has not yet returned
  sent,        \* history: the kinds of the frames the controller has sent, in order
  in_buffer,   \* __recv: in_buffer
  hdr,         \* __recv: <<msg_id, param1, param2, dst, src>>, as the current iteration unpacked them
  raw_hdr,     \* history: the six bytes in_buffer[0:6] they were unpacked from
  msg_len,     \* __recv: msg_len, as the current iteration computed it
  dec,         \* __decode_status: <<pos, status>> unpacked from the payload, while it runs
  rpc,         \* where the receiver thread is
  param_lock,  \* self.__param_lock: "free" or the thread that holds it
  pos,         \* self.__pos
  status,      \* self.__status
  applied,     \* history: the (pos, status) pairs __decode_status has stored
  dispatched,  \* history: the msg_id of every frame __recv recognised and removed
  cpc,         \* where the calling thread is
  c_val,       \* get_pos / get_raw_status: <<the local pos / status>>, while the call runs
  ret_pos,     \* <<the value the last get_pos returned>>
  ret_status,  \* <<the value the last get_raw_status returned>>
  ser_out,     \* the bytes of the last self.__ser.write, flushed to the line
  n_writes,    \* how many times self.__ser.write was called
  c_op,        \* the derived query (get_home_state, is_moving, ...) that is running, or "none"
  ret_derived, \* <<the derived query that returned last, the value it returned>>
  prog,        \* the program that drives the object: "none", or main of MotorDriver.py / RunExperiment.py and where it is
  step_size,   \* main of MotorDriver.py: step_size
  old_step_size, \* main of MotorDriver.py: old_step_size
  null_point,  \* main of MotorDriver.py: null_point
  n_iter,      \* how many iterations of its loop the program has run
  calls        \* history: the set_move and do_move calls the program has made, as <<name, rel>>

recv_vars == <<in_buffer, hdr, raw_hdr, msg_len, dec, rpc>>
shared_vars == <<param_lock, pos, status>>
call_vars == <<cpc, c_val, ret_pos, ret_status>>
out_vars == <<ser_out, n_writes>>
derived_vars == <<c_op, ret_derived>>
main_vars == <<prog, step_size, old_step_size, null_point, n_iter, calls>>
ext_vars == <<derived_vars, main_vars>>
vars == <<wire, sent, in_buffer, hdr, raw_hdr, msg_len, dec, rpc, param_lock,
          pos, status, applied, dispatched, cpc, c_val, ret_pos, ret_status,
          ser_out, n_writes, c_op, ret_derived, prog, step_size, old_step_size,
          null_point, n_iter, calls>>

(***************************************************************************)
(* Bounds of the model.                                                    *)
(***************************************************************************)
\* How many frames (or garbage bursts) the controller sends in one run of Spec,
\* and in one run of SpecApi.
MaxFrames == 2
MaxApiFrames == 1
\* How many command frames the calling thread writes in one run.
MaxWrites == 1
\* How many iterations of its key loop main of MotorDriver.py runs in one run.
MaxIters == 3

(***************************************************************************)
(* Constants of the class.                                                 *)
(***************************************************************************)
MGMSG_HW_START_UPDATEMSGS == \h0011
MGMSG_HW_STOP_UPDATEMSGS == \h0012
MGMSG_MOD_IDENTIFY == \h0223
MGMSG_MOT_MOVE_HOME == \h0443
MGMSG_MOT_MOVE_HOMED == \h0444
MGMSG_MOT_SET_MOVERELPARAMS == \h0445
MGMSG_MOT_MOVE_RELATIVE == \h0448
MGMSG_MOT_SET_MOVEABSPARAMS == \h0450
MGMSG_MOT_MOVE_ABSOLUTE == \h0453
MGMSG_MOT_MOVE_COMPLETED == \h0464
MGMSG_MOT_GET_STATUSUPDATE == \h0481

\* self.__chan, self.__src, and self.__dst with its default
chan == \h01
src == \h01
dst == \h50

\* self.__ser.read(64)
READ_SIZE == 64
\* len(in_buffer) < 6: the size of "<HBBBB"
HEADER_SIZE == 6
\* struct.calcsize("<HllL")
STATUS_SIZE == 2 + 4 + 4 + 4

\* self.__pos = -1 ; self.__status = 0xFFFFFFFF
INIT_POS == -1
INIT_STATUS == [hi |-> \hFFFF, lo |-> \hFFFF]

\* A local that holds nothing, a call that has not returned: the empty tuple.
NoVal == <<>>

(***************************************************************************)
(* Python's integer operators on non-negative integers.                    *)
(***************************************************************************)
RECURSIVE BitOr(_, _)
BitOr(a, b) ==
  IF a = 0 THEN b
  ELSE IF b = 0 THEN a
  ELSE (IF a % 2 = 1 \/ b % 2 = 1 THEN 1 ELSE 0) + 2 * BitOr(a \div 2, b \div 2)

RECURSIVE BitAnd(_, _)
BitAnd(a, b) ==
  IF a = 0 \/ b = 0 THEN 0
  ELSE (IF a % 2 = 1 /\ b % 2 = 1 THEN 1 ELSE 0) + 2 * BitAnd(a \div 2, b \div 2)

Min(a, b) == IF a < b THEN a ELSE b

\* s[i:] and s[i:j] of a Python string, for 0 <= i
SliceFrom(s, i) == SubSeq(s, i + 1, Len(s))
Slice(s, i, j) == SubSeq(s, i + 1, Min(j, Len(s)))

(***************************************************************************)
(* struct.pack and struct.unpack, little-endian standard sizes.            *)
(***************************************************************************)
\* "<B"
PackB(n) == <<n % 256>>
\* "<H"
PackH(n) == <<n % 256, (n \div 256) % 256>>
\* A changed Packl: only the low 16 bits of the integer are packed.
Packl_LowWord(n) == <<n % 256, (n \div 256) % 256, 0, 0>>

\* "<l": two's complement of a signed 32-bit integer
Packl(n) == <<n % 256, (n \div 256) % 256, (n \div 65536) % 256, (n \div 16777216) % 256>>
\* "<L" of an unsigned 32-bit integer given as its halves
PackL(u) == PackH(u.lo) \o PackH(u.hi)

UnpackH(b) == b[1] + 256 * b[2]
Unpackl(b) ==
  b[1] + 256 * b[2] + 65536 * b[3] + 16777216 * (IF b[4] >= 128 THEN b[4] - 256 ELSE b[4])
UnpackL(b) == [hi |-> b[3] + 256 * b[4], lo |-> b[1] + 256 * b[2]]

\* struct.unpack("<HBBBB", in_buffer[0:6])
UnpackHeader(b) ==
  [msg_id |-> UnpackH(SubSeq(b, 1, 2)), param1 |-> b[3], param2 |-> b[4],
   dst |-> b[5], src |-> b[6]]

\* A changed UnpackStatus: the third field is taken for the status.
UnpackStatus_EncoderAsStatus(data) ==
  [chan |-> UnpackH(SubSeq(data, 1, 2)), pos |-> Unpackl(SubSeq(data, 3, 6)),
   status |-> UnpackL(SubSeq(data, 7, 10))]

\* struct.unpack("<HllL", data): chan, pos, _, status
UnpackStatus(data) ==
  [chan |-> UnpackH(SubSeq(data, 1, 2)), pos |-> Unpackl(SubSeq(data, 3, 6)),
   status |-> UnpackL(SubSeq(data, 11, 14))]

\* struct.unpack raises struct.error unless the string has the format's size
UnpackStatusRaises(data) == Len(data) # STATUS_SIZE

(***************************************************************************)
(* What the controller puts on the line.  A frame is the six-byte header   *)
(* "<HBBBB" that __recv unpacks, followed by its payload; StatusFrame      *)
(* carries the fields that __decode_status unpacks, cut to the declared    *)
(* length n.                                                               *)
(***************************************************************************)
Header(id, p1, p2, d, s) == PackH(id) \o PackB(p1) \o PackB(p2) \o PackB(d) \o PackB(s)

StatusFields(c, p, enc, st) == PackH(c) \o Packl(p) \o Packl(enc) \o PackL(st)

StatusFrame(d, s, n, c, p, enc, st) ==
  Header(MGMSG_MOT_GET_STATUSUPDATE, n % 256, n \div 256, d, s)
    \o SubSeq(StatusFields(c, p, enc, st), 1, n)

\* The kinds of input of the runs; Frame(k) is the bytes of kind k.
StatusKinds == {"S100", "S200"}
OtherKinds == {"SCH2", "SDST", "SSRC", "S12", "MC0", "MH1", "G3"}
Kinds == StatusKinds \cup OtherKinds

\* The position and status word a status frame of kind k carries.
KindPos(k) ==
  CASE k = "S100" -> 100
    [] k = "S200" -> 200
    [] k = "SNEG" -> -3
    [] k = "SCH2" -> 300
    [] k = "SDST" -> 400
    [] k = "SSRC" -> 500
    [] k = "S12" -> 600

KindStatus(k) ==
  CASE k = "S100" -> [hi |-> \h0000, lo |-> \h0400]
    [] k = "S200" -> [hi |-> \h8000, lo |-> \h0410]
    [] k = "SNEG" -> [hi |-> \h0000, lo |-> \h0201]
    [] k = "SCH2" -> [hi |-> \h0000, lo |-> \h0402]
    [] k = "SDST" -> [hi |-> \h0000, lo |-> \h0420]
    [] k = "SSRC" -> [hi |-> \h0000, lo |-> \h0440]
    [] k = "S12" -> [hi |-> \h0000, lo |-> \h0480]

Frame(k) ==
  CASE k \in {"S100", "S200", "SNEG"} ->
         \* a status update for channel 1, from the controller to this endpoint
         StatusFrame(BitOr(src, \h80), dst, STATUS_SIZE, chan, KindPos(k), 7, KindStatus(k))
    [] k = "SCH2" ->
         \* the same for channel 2
         StatusFrame(BitOr(src, \h80), dst, STATUS_SIZE, 2, KindPos(k), 7, KindStatus(k))
    [] k = "SDST" ->
         \* addressed to endpoint 0x02
         StatusFrame(BitOr(\h02, \h80), dst, STATUS_SIZE, chan, KindPos(k), 7, KindStatus(k))
    [] k = "SSRC" ->
         \* sent by endpoint 0x51
         StatusFrame(BitOr(src, \h80), \h51, STATUS_SIZE, chan, KindPos(k), 7, KindStatus(k))
    [] k = "S12" ->
         \* a status update whose length field and payload are 12 bytes
         StatusFrame(BitOr(src, \h80), dst, 12, chan, KindPos(k), 7, KindStatus(k))
    [] k = "MC0" ->
         \* a short move-completed frame with both parameters 0
         Header(MGMSG_MOT_MOVE_COMPLETED, 0, 0, src, dst)
    [] k = "MH1" ->
         \* a short move-homed frame with param1 = channel 1
         Header(MGMSG_MOT_MOVE_HOMED, chan, 0, src, dst)
    [] k = "UNK" ->
         \* a short frame of a message id __recv does not know
         Header(MGMSG_MOD_IDENTIFY, 0, 0, src, dst)
    [] k = "G3" ->
         \* three stray bytes
         <<\hAA, \hBB, \hCC>>

(***************************************************************************)
(* KST101.__init__: the sentinels, a free lock, the receiver thread        *)
(* started with an empty in_buffer; nothing sent or written yet.           *)
(***************************************************************************)
Init ==
  /\ wire = <<>>
  /\ sent = <<>>
  /\ in_buffer = <<>>
  /\ hdr = NoVal
  /\ raw_hdr = <<>>
  /\ msg_len = 0
  /\ dec = NoVal
  /\ rpc = "loop"
  /\ param_lock = "free"
  /\ pos = INIT_POS
  /\ status = INIT_STATUS
  /\ applied = <<>>
  /\ dispatched = <<>>
  /\ cpc = "idle"
  /\ c_val = NoVal
  /\ ret_pos = NoVal
  /\ ret_status = NoVal
  /\ ser_out = <<>>
  /\ n_writes = 0
  /\ c_op = "none"
  /\ ret_derived = NoVal
  /\ prog = "none"
  /\ step_size = NoVal
  /\ old_step_size = NoVal
  /\ null_point = NoVal
  /\ n_iter = 0
  /\ calls = <<>>

(***************************************************************************)
(* The controller sends one more frame of kind k, up to max frames.        *)
(***************************************************************************)
ControllerSend(k, max) ==
  /\ Len(sent) < max
  /\ wire' = wire \o Frame(k)
  /\ sent' = Append(sent, k)
  /\ UNCHANGED <<recv_vars, shared_vars, applied, dispatched, call_vars, out_vars, ext_vars>>

(***************************************************************************)
(* KST101.__recv, lines 132-141: the header at the front of the buffer.    *)
(***************************************************************************)
\* if dst | 0x80:
\* A changed IsLongFormat: the high bit of the destination is tested with &.
IsLongFormat_HighBitTest(d) == BitAnd(d, \h80) # 0

IsLongFormat(d) == BitOr(d, \h80) # 0

\* A changed MsgLen: the length field is never added.
MsgLen_HeaderOnly(h) == HEADER_SIZE

\* msg_len = 6 ; if dst | 0x80: msg_len += ((param2 << 8) | param1)
MsgLen(h) ==
  IF IsLongFormat(h.dst) THEN HEADER_SIZE + BitOr(h.param2 * 256, h.param1)
  ELSE HEADER_SIZE

\* if dst | 0x80: dst &= 0x7F
\* A changed TrueDst: the destination is kept as unpacked.
TrueDst_Unmasked(h) == h.dst

TrueDst(h) == IF IsLongFormat(h.dst) THEN BitAnd(h.dst, \h7F) ELSE h.dst

\* A changed AddressOK: the source byte is not compared.
AddressOK_NoSourceCheck(h) == ~(TrueDst(h) # src)

\* not (dst != self.__src or src != self.__dst)
AddressOK(h) == ~(TrueDst(h) # src \/ h.src # dst)

\* A changed Resync: only the first byte is dropped.
Resync_OneByte(buf) == Tail(buf)

\* in_buffer = "", lines 140 and 158: what is left of the buffer buf
\* A changed Resync: only the six bytes of the offending header are dropped.
Resync_DropHeader(buf) == SliceFrom(buf, HEADER_SIZE)

Resync(buf) == <<>>

\* the message ids of the if / elif chain, lines 146-155
IsStatusUpdate(id) == id = MGMSG_MOT_GET_STATUSUPDATE
IsNoPayloadEffect(id) == id = MGMSG_MOT_MOVE_COMPLETED \/ id = MGMSG_MOT_MOVE_HOMED

\* A changed ChannelOK: every channel is taken.
ChannelOK_Any(c) == TRUE

\* __decode_status, line 109: not (chan != self.__chan)
ChannelOK(c) == ~(c # chan)

(***************************************************************************)
(* One iteration of the while loop of KST101.__recv, lines 123-159, with   *)
(* a read that returns the next n bytes of the line.  A status update for  *)
(* this channel leaves the iteration inside __decode_status, about to      *)
(* acquire the lock; an unpack that raises ends the thread.                *)
(***************************************************************************)
RecvIter(n) ==
  /\ rpc = "loop"
  /\ n \in 0..Min(READ_SIZE, Len(wire))
  /\ LET data_in == SubSeq(wire, 1, n)
         buf == in_buffer \o data_in
         h == UnpackHeader(Slice(buf, 0, HEADER_SIZE))
         len == MsgLen(h)
         data == Slice(buf, HEADER_SIZE, len)
         parsed == /\ hdr' = <<h.msg_id, h.param1, h.param2, TrueDst(h), h.src>>
                   /\ raw_hdr' = Slice(buf, 0, HEADER_SIZE)
                   /\ msg_len' = len
         \* the iteration ends before line 132: its header locals are not assigned
         unparsed == /\ hdr' = NoVal
                     /\ raw_hdr' = <<>>
                     /\ msg_len' = 0
     IN /\ wire' = SliceFrom(wire, n)
        /\ IF in_buffer = <<>> /\ data_in = <<>>
           THEN \* time.sleep(0.1) ; continue
                /\ unparsed
                /\ UNCHANGED <<in_buffer, dec, rpc, dispatched>>
           ELSE IF Len(buf) < HEADER_SIZE
           THEN /\ unparsed
                /\ in_buffer' = buf
                /\ UNCHANGED <<dec, rpc, dispatched>>
           ELSE IF ~AddressOK(h)
           THEN /\ parsed
                /\ in_buffer' = Resync(buf)
                /\ UNCHANGED <<dec, rpc, dispatched>>
           ELSE IF Len(buf) < len
           THEN \* Message is incomplete
                /\ parsed
                /\ in_buffer' = buf
                /\ UNCHANGED <<dec, rpc, dispatched>>
           ELSE IF IsStatusUpdate(h.msg_id)
           THEN /\ parsed
                /\ IF UnpackStatusRaises(data)
                   THEN \* struct.error leaves __recv: the thread ends
                        /\ rpc' = "dead"
                        /\ in_buffer' = buf
                        /\ UNCHANGED <<dec, dispatched>>
                   ELSE IF ~ChannelOK(UnpackStatus(data).chan)
                   THEN \* Unknown channel, ignore
                        /\ in_buffer' = SliceFrom(buf, len)
                        /\ dispatched' = Append(dispatched, h.msg_id)
                        /\ UNCHANGED <<dec, rpc>>
                   ELSE /\ dec' = <<UnpackStatus(data).pos, UnpackStatus(data).status>>
                        /\ in_buffer' = buf
                        /\ rpc' = "acquire"
                        /\ UNCHANGED dispatched
           ELSE IF IsNoPayloadEffect(h.msg_id)
           THEN /\ parsed
                /\ in_buffer' = SliceFrom(buf, len)
                /\ dispatched' = Append(dispatched, h.msg_id)
                /\ UNCHANGED <<dec, rpc>>
           ELSE \* Clear the buffer to resynchronise
                /\ parsed
                /\ in_buffer' = Resync(buf)
                /\ UNCHANGED <<dec, rpc, dispatched>>
  /\ UNCHANGED <<sent, shared_vars, applied, call_vars, out_vars, ext_vars>>

(***************************************************************************)
(* KST101.__decode_status, lines 112-115, and line 148 after it returns.   *)
(***************************************************************************)
\* self.__param_lock.acquire()
RecvAcquire ==
  /\ rpc = "acquire"
  /\ param_lock = "free"
  /\ param_lock' = "recv"
  /\ rpc' = "set_pos"
  /\ UNCHANGED <<wire, sent, in_buffer, hdr, raw_hdr, msg_len, dec, pos, status,
                 applied, dispatched, call_vars, out_vars, ext_vars>>

\* self.__pos = pos
RecvSetPos ==
  /\ rpc = "set_pos"
  /\ pos' = dec[1]
  /\ rpc' = "set_status"
  /\ UNCHANGED <<wire, sent, in_buffer, hdr, raw_hdr, msg_len, dec, param_lock, status,
                 applied, dispatched, call_vars, out_vars, ext_vars>>

\* self.__status = status
RecvSetStatus ==
  /\ rpc = "set_status"
  /\ status' = dec[2]
  /\ applied' = Append(applied, <<pos, dec[2]>>)
  /\ rpc' = "release"
  /\ UNCHANGED <<wire, sent, in_buffer, hdr, raw_hdr, msg_len, dec, param_lock, pos,
                 dispatched, call_vars, out_vars, ext_vars>>

\* A changed RecvRelease: the payload is cut out of the buffer and the header stays.
RecvRelease_RemovesPayloadOnly ==
  /\ rpc = "release"
  /\ param_lock' = "free"
  /\ dec' = NoVal
  /\ in_buffer' = Slice(in_buffer, 0, HEADER_SIZE) \o SliceFrom(in_buffer, msg_len)
  /\ dispatched' = Append(dispatched, hdr[1])
  /\ rpc' = "loop"
  /\ UNCHANGED <<wire, sent, hdr, raw_hdr, msg_len, pos, status, applied,
                 call_vars, out_vars, ext_vars>>

\* self.__param_lock.release() ; return ; in_buffer = in_buffer[msg_len:] ; continue
RecvRelease ==
  /\ rpc = "release"
  /\ param_lock' = "free"
  /\ dec' = NoVal
  /\ in_buffer' = SliceFrom(in_buffer, msg_len)
  /\ dispatched' = Append(dispatched, hdr[1])
  /\ rpc' = "loop"
  /\ UNCHANGED <<wire, sent, hdr, raw_hdr, msg_len, pos, status, applied,
                 call_vars, out_vars, ext_vars>>

Receiver == (\E n \in 0..READ_SIZE : RecvIter(n)) \/ RecvAcquire
              \/ RecvSetPos \/ RecvSetStatus \/ RecvRelease

(***************************************************************************)
(* The calling thread: the queries.  get_pos, lines 202-205, and           *)
(* get_raw_status, lines 209-212: acquire, read the field, release and     *)
(* return.                                                                 *)
(***************************************************************************)
\* A changed GetPosAcquire: the lock is not taken.
GetPosAcquire_NoLock ==
  /\ cpc = "idle"
  /\ cpc' = "pos_read"
  /\ UNCHANGED <<wire, sent, recv_vars, shared_vars, applied, dispatched,
                 c_val, ret_pos, ret_status, out_vars, ext_vars>>

GetPosAcquire ==
  /\ cpc = "idle"
  /\ param_lock = "free"
  /\ param_lock' = "caller"
  /\ cpc' = "pos_read"
  /\ UNCHANGED <<wire, sent, recv_vars, pos, status, applied, dispatched,
                 c_val, ret_pos, ret_status, out_vars, ext_vars>>

GetPosRead ==
  /\ cpc = "pos_read"
  /\ c_val' = <<pos>>
  /\ cpc' = "pos_release"
  /\ UNCHANGED <<wire, sent, recv_vars, shared_vars, applied, dispatched,
                 ret_pos, ret_status, out_vars, ext_vars>>

GetPosRelease ==
  /\ cpc = "pos_release"
  /\ param_lock' = "free"
  /\ ret_pos' = c_val
  /\ c_val' = NoVal
  /\ cpc' = "idle"
  /\ UNCHANGED <<wire, sent, recv_vars, pos, status, applied, dispatched,
                 ret_status, out_vars, ext_vars>>

GetRawStatusAcquire ==
  /\ cpc = "idle"
  /\ param_lock = "free"
  /\ param_lock' = "caller"
  /\ cpc' = "status_read"
  /\ UNCHANGED <<wire, sent, recv_vars, pos, status, applied, dispatched,
                 c_val, ret_pos, ret_status, out_vars, ext_vars>>

GetRawStatusRead ==
  /\ cpc = "status_read"
  /\ c_val' = <<status>>
  /\ cpc' = "status_release"
  /\ UNCHANGED <<wire, sent, recv_vars, shared_vars, applied, dispatched,
                 ret_pos, ret_status, out_vars, ext_vars>>

\* A changed GetRawStatusRelease: the call returns without releasing the lock.
GetRawStatusRelease_KeepsLock ==
  /\ cpc = "status_release"
  /\ ret_status' = c_val
  /\ c_val' = NoVal
  /\ cpc' = "idle"
  /\ UNCHANGED <<wire, sent, recv_vars, shared_vars, applied, dispatched,
                 ret_pos, out_vars, ext_vars>>

GetRawStatusRelease ==
  /\ cpc = "status_release"
  /\ param_lock' = "free"
  /\ ret_status' = c_val
  /\ c_val' = NoVal
  /\ cpc' = "idle"
  /\ UNCHANGED <<wire, sent, recv_vars, pos, status, applied, dispatched,
                 ret_pos, out_vars, ext_vars>>

Queries == GetPosAcquire \/ GetPosRead \/ GetPosRelease
             \/ GetRawStatusAcquire \/ GetRawStatusRead \/ GetRawStatusRelease

(***************************************************************************)
(* The calling thread: the commands.  __send_short and __send_long build   *)
(* the frame, write it and flush.  The arguments are within the ranges of  *)
(* their struct formats.                                                   *)
(***************************************************************************)
\* struct.pack("<HBBBB", msg_id, param1, param2, self.__dst, self.__src)
SendShortBytes(id, p1, p2) ==
  PackH(id) \o PackB(p1) \o PackB(p2) \o PackB(dst) \o PackB(src)

\* struct.pack("<HHBB", msg_id, len(data), self.__dst | 0x80, self.__src) + data
SendLongBytes(id, data) ==
  PackH(id) \o PackH(Len(data)) \o PackB(BitOr(dst, \h80)) \o PackB(src) \o data

\* A changed Write: the frame goes out only once the receiver has removed a frame
\* of the controller, as if the command waited for an acknowledgement.
Write_WaitsForReply(data_out) ==
  /\ cpc = "idle"
  /\ n_writes < MaxWrites
  /\ dispatched # <<>>
  /\ ser_out' = data_out
  /\ n_writes' = n_writes + 1
  /\ UNCHANGED <<wire, sent, recv_vars, shared_vars, applied, dispatched, call_vars, ext_vars>>

\* self.__ser.write(data_out) ; self.__ser.flush()
Write(data_out) ==
  /\ cpc = "idle"
  /\ n_writes < MaxWrites
  /\ ser_out' = data_out
  /\ n_writes' = n_writes + 1
  /\ UNCHANGED <<wire, sent, recv_vars, shared_vars, applied, dispatched, call_vars, ext_vars>>

\* the arguments the callers pass
Freqs == {64}
Dists == {100}

identify == Write(SendShortBytes(MGMSG_MOD_IDENTIFY, \h00, \h00))

en_update_msg(enable, freq) ==
  IF enable THEN Write(SendShortBytes(MGMSG_HW_START_UPDATEMSGS, freq, \h00))
  ELSE Write(SendShortBytes(MGMSG_HW_STOP_UPDATEMSGS, \h00, \h00))

\* A changed home: the cached position is set to 0 as well.
home_ResetsPosition ==
  /\ cpc = "idle"
  /\ n_writes < MaxWrites
  /\ ser_out' = SendShortBytes(MGMSG_MOT_MOVE_HOME, chan, \h00)
  /\ n_writes' = n_writes + 1
  /\ pos' = 0
  /\ UNCHANGED <<wire, sent, recv_vars, param_lock, status, applied, dispatched, call_vars, ext_vars>>

home == Write(SendShortBytes(MGMSG_MOT_MOVE_HOME, chan, \h00))

set_move(dist, rel) ==
  LET cmd == IF rel THEN MGMSG_MOT_SET_MOVERELPARAMS ELSE MGMSG_MOT_SET_MOVEABSPARAMS
      data == PackH(chan) \o Packl(dist)
  IN Write(SendLongBytes(cmd, data))

do_move(rel) ==
  LET cmd == IF rel THEN MGMSG_MOT_MOVE_RELATIVE ELSE MGMSG_MOT_MOVE_ABSOLUTE
  IN Write(SendShortBytes(cmd, chan, \h00))

Commands ==
  \/ identify
  \/ \E enable \in BOOLEAN, freq \in Freqs : en_update_msg(enable, freq)
  \/ home
  \/ \E dist \in Dists, rel \in BOOLEAN : set_move(dist, rel)
  \/ \E rel \in BOOLEAN : do_move(rel)

(***************************************************************************)
(* The specifications.  Spec is the receiver thread fed by the controller; *)
(* SpecApi adds the calling thread, with the controller sending the frames *)
(* of ApiKinds.                                                            *)
(***************************************************************************)
Next == (\E k \in Kinds : ControllerSend(k, MaxFrames)) \/ Receiver

Spec == Init /\ [][Next]_vars

ApiKinds == {"S100", "SCH2", "MH1", "MC0"}

NextApi == (\E k \in ApiKinds : ControllerSend(k, MaxApiFrames)) \/ Receiver \/ Queries \/ Commands

SpecApi == Init /\ [][NextApi]_vars

(***************************************************************************)
(* Notions the properties are stated with.                                 *)
(***************************************************************************)
Range(f) == {f[i] : i \in DOMAIN f}

IsPrefix(a, b) == Len(a) <= Len(b) /\ a = SubSeq(b, 1, Len(a))

\* The bytes of the frames of kinds ks, in order.
RECURSIVE Cat(_)
Cat(ks) == IF ks = <<>> THEN <<>> ELSE Frame(Head(ks)) \o Cat(Tail(ks))

\* The (position, status) pair a status frame of kind k carries.
Pair(k) == <<KindPos(k), KindStatus(k)>>

\* The pairs of the kinds of ks that are in S, in order.
RECURSIVE PairsOf(_, _)
PairsOf(ks, S) ==
  IF ks = <<>> THEN <<>>
  ELSE (IF Head(ks) \in S THEN <<Pair(Head(ks))>> ELSE <<>>) \o PairsOf(Tail(ks), S)

\* The frames the controller has sent that __recv has not removed yet.
Pending == SubSeq(sent, Len(dispatched) + 1, Len(sent))

\* Everything sent has been read and nothing is left in the buffer.
Drained == wire = <<>> /\ in_buffer = <<>> /\ rpc = "loop"

(***************************************************************************)
(* C1.  A caller that obtains the position with get_pos and the status     *)
(* with get_raw_status ends up with a pair that is the initial pair or the *)
(* pair of one single stored status update, in every interleaving.         *)
(***************************************************************************)
C1_PairFromOneUpdate ==
  (cpc = "idle" /\ ret_pos # NoVal /\ ret_status # NoVal)
    => <<ret_pos[1], ret_status[1]>> \in {<<INIT_POS, INIT_STATUS>>} \cup Range(applied)

(***************************************************************************)
(* C2.  When everything the controller has sent is well-formed status      *)
(* updates for this endpoint and channel, then however the bytes are split *)
(* across reads: the pairs stored so far are those of the frames sent, in  *)
(* the order sent; the bytes not yet removed are exactly the frames not    *)
(* yet applied, so none is skipped; the shared fields hold the last pair   *)
(* stored; and the thread is alive.                                        *)
(***************************************************************************)
C2_StatusFramesInOrder ==
  (\A i \in 1..Len(sent) : sent[i] \in StatusKinds)
    => /\ IsPrefix(applied, PairsOf(sent, StatusKinds))
       /\ in_buffer \o wire = Cat(Pending)
       /\ Len(applied) = Len(dispatched) + (IF rpc = "release" THEN 1 ELSE 0)
       /\ (applied # <<>> /\ rpc # "set_status"
             => <<pos, status>> = applied[Len(applied)])
       /\ rpc # "dead"

\* Positions 100 and 200 were sent, read and stored in that order.
C2_Witness ==
  /\ sent = <<"S100", "S200">>
  /\ Drained
  /\ applied = <<Pair("S100"), Pair("S200")>>
  /\ pos = 200

(***************************************************************************)
(* C3.  Whatever bytes arrive, the receiver thread never stops.            *)
(***************************************************************************)
C3_ReceiverNeverStops == rpc # "dead"

(***************************************************************************)
(* C4.  The frame length computed from a header is 6 when the high bit of  *)
(* its destination byte is clear, and 6 + (param2 * 256 + param1) when it  *)
(* is set.                                                                 *)
(***************************************************************************)
C4_FrameLength ==
  raw_hdr # <<>>
    => msg_len = (IF raw_hdr[5] < 128 THEN 6 ELSE 6 + raw_hdr[4] * 256 + raw_hdr[3])

(***************************************************************************)
(* C5, as claimed.  Three stray bytes followed by a valid short frame:     *)
(* once all nine bytes are read, the frame has been recognised and         *)
(* removed.                                                                *)
(***************************************************************************)
C5_RecoversShortFrame ==
  (sent = <<"G3", "MC0">> /\ wire = <<>>)
    => dispatched = <<MGMSG_MOT_MOVE_COMPLETED>>

(***************************************************************************)
(* C5, amended.  Three stray bytes followed by a valid short frame: for    *)
(* every split across reads the frame is never recognised.  Nothing is     *)
(* dropped before six bytes are buffered; the header unpacked then is      *)
(* misaligned, fails the address check, and the whole buffer goes, at      *)
(* least the first three bytes of the frame with it.  What can remain      *)
(* buffered is a tail of at most three bytes of the frame.  The shared     *)
(* state keeps its initial values and the thread stays alive.              *)
(***************************************************************************)
C5_ShortFrameLostWithGarbage ==
  sent = <<"G3", "MC0">>
    => /\ dispatched = <<>>
       /\ rpc = "loop"
       /\ pos = INIT_POS /\ status = INIT_STATUS
       /\ (raw_hdr # <<>> => /\ raw_hdr = SubSeq(Cat(sent), 1, HEADER_SIZE)
                             /\ in_buffer = <<>>)
       /\ (wire = <<>>
             => /\ Len(in_buffer) <= 3
                /\ in_buffer = SliceFrom(Frame("MC0"), HEADER_SIZE - Len(in_buffer)))

\* All nine bytes are read; the last three bytes of the frame sit in the buffer.
C5_Witness ==
  /\ sent = <<"G3", "MC0">>
  /\ wire = <<>>
  /\ in_buffer = SliceFrom(Frame("MC0"), 3)
  /\ dispatched = <<>>

(***************************************************************************)
(* C6.  A status update whose destination is not this endpoint, or whose   *)
(* source is not the controller, never reaches the shared state: the       *)
(* position and status never take the values such a frame carries, no      *)
(* such pair is ever stored, and as long as only such frames were sent     *)
(* both fields keep their initial values.                                  *)
(***************************************************************************)
ForeignKinds == {"SDST", "SSRC"}

C6_AddressFiltering ==
  /\ \A k \in ForeignKinds :
       /\ pos # KindPos(k)
       /\ status # KindStatus(k)
       /\ Pair(k) \notin Range(applied)
  /\ ((\A i \in 1..Len(sent) : sent[i] \in ForeignKinds)
        => pos = INIT_POS /\ status = INIT_STATUS /\ applied = <<>>)

\* After a stored update a frame for another endpoint was unpacked and dropped.
C6_Witness ==
  /\ sent = <<"S100", "SDST">>
  /\ wire = <<>>
  /\ raw_hdr = SubSeq(Frame("SDST"), 1, HEADER_SIZE)
  /\ in_buffer = <<>>
  /\ <<pos, status>> = Pair("S100")

(***************************************************************************)
(* C7.  A correctly addressed status update for another channel changes    *)
(* nothing in the shared state and does not stop the thread, and it is     *)
(* removed from the buffer as one whole frame: in a stream of such frames  *)
(* and valid channel-1 updates, the bytes not yet removed are exactly the  *)
(* frames not yet handled, and the pairs stored are those of the channel-1 *)
(* frames among the frames handled, in order.                              *)
(***************************************************************************)
C7_OtherChannelIgnored ==
  ("SCH2" \in Range(sent) /\ \A i \in 1..Len(sent) : sent[i] \in StatusKinds \cup {"SCH2"})
    => /\ rpc # "dead"
       /\ in_buffer \o wire = Cat(Pending)
       /\ Pair("SCH2") \notin Range(applied)
       /\ pos # KindPos("SCH2") /\ status # KindStatus("SCH2")
       /\ rpc = "loop"
            => applied = PairsOf(SubSeq(sent, 1, Len(dispatched)), StatusKinds)

\* The channel-2 frame was removed and the channel-1 frame behind it stored.
C7_Witness ==
  /\ sent = <<"SCH2", "S100">>
  /\ Drained
  /\ dispatched = <<MGMSG_MOT_GET_STATUSUPDATE, MGMSG_MOT_GET_STATUSUPDATE>>
  /\ applied = <<Pair("S100")>>
  /\ <<pos, status>> = Pair("S100")

(***************************************************************************)
(* C8, as claimed.  A status update whose length field is 12 and whose     *)
(* payload is the first 12 bytes of channel, position, encoder count and   *)
(* status is decoded, and its position and status are stored.              *)
(***************************************************************************)
C8_Stores12BytePayload ==
  (sent = <<"S12">> /\ wire = <<>> /\ rpc \in {"loop", "dead"})
    => pos = KindPos("S12")

(***************************************************************************)
(* C8, amended.  The payload of a status update is 14 bytes (u16 channel,  *)
(* i32 position, i32 encoder count, u32 status, little-endian) and its     *)
(* length field is 14: whenever the receiver has stored an update, the     *)
(* frame at the front of the buffer has length field 14 and 20 bytes, its  *)
(* bytes 8..11 are the little-endian i32 of the stored position and its    *)
(* bytes 16..19 the little-endian u32 of the stored status.                *)
(***************************************************************************)
C8_Stores14BytePayload ==
  rpc = "release"
    => /\ msg_len = HEADER_SIZE + 14
       /\ raw_hdr[3] = 14 /\ raw_hdr[4] = 0
       /\ Len(in_buffer) >= msg_len
       /\ SubSeq(in_buffer, 9, 12) = Packl(pos)
       /\ SubSeq(in_buffer, 17, 20) = PackL(status)

\* The update with position 200 and status 0x80000410 has just been stored.
C8_Witness ==
  /\ rpc = "release"
  /\ sent = <<"S200">>
  /\ pos = 200
  /\ status = [hi |-> \h8000, lo |-> \h0410]

(***************************************************************************)
(* C9.  From construction until the receiver stores the first accepted     *)
(* status update, position and status are the sentinels -1 and 0xFFFFFFFF  *)
(* and every get_pos / get_raw_status that has returned has returned       *)
(* them, whatever commands were written and whatever other frames were     *)
(* received; and the receiver stores nothing unless a status update for    *)
(* this endpoint and channel was sent.                                     *)
(***************************************************************************)
C9_SentinelsUntilFirstUpdate ==
  /\ applied = <<>>
       => /\ rpc # "set_status" => pos = INIT_POS
          /\ status = INIT_STATUS
          /\ ret_pos \in {NoVal, <<INIT_POS>>}
          /\ ret_status \in {NoVal, <<INIT_STATUS>>}
  /\ (\A i \in 1..Len(sent) : sent[i] \notin StatusKinds)
       => applied = <<>> /\ rpc = "loop"

\* A channel-2 update was received and dropped, a command was written, and
\* both queries have returned the sentinels.
C9_Witness ==
  /\ sent = <<"SCH2">>
  /\ Drained
  /\ dispatched = <<MGMSG_MOT_GET_STATUSUPDATE>>
  /\ n_writes = 1
  /\ ret_pos = <<INIT_POS>>
  /\ ret_status = <<INIT_STATUS>>

(***************************************************************************)
(* C10.  A step changes the shared position or status only if it is the    *)
(* receiver, holding the lock inside __decode_status, storing the fields   *)
(* of a status update it accepted: the header it unpacked is a status      *)
(* update addressed to this endpoint by the controller and the value       *)
(* written is the one unpacked from that frame's channel-1 payload.  So    *)
(* no command, no query and no move-completed or move-homed frame changes  *)
(* either field.                                                           *)
(***************************************************************************)
C10_OnlyAcceptedUpdatesWrite ==
  [][ (pos' # pos \/ status' # status)
        => /\ rpc \in {"set_pos", "set_status"}
           /\ param_lock = "recv"
           /\ hdr = <<MGMSG_MOT_GET_STATUSUPDATE, STATUS_SIZE, 0, src, dst>>
           /\ UnpackH(SubSeq(in_buffer, 7, 8)) = chan
           /\ pos' \in {pos, Unpackl(SubSeq(in_buffer, 9, 12))}
           /\ status' \in {status, UnpackL(SubSeq(in_buffer, 17, 20))}
           /\ UNCHANGED <<call_vars, out_vars>> ]_vars

\* A move-completed frame was recognised and removed, a command was written
\* and a query has returned, and the fields are what they were.
C10_Witness ==
  /\ dispatched = <<MGMSG_MOT_MOVE_COMPLETED>>
  /\ n_writes = 1
  /\ ret_pos = <<INIT_POS>>
  /\ pos = INIT_POS /\ status = INIT_STATUS

(***************************************************************************)
(* SpecCmd: the calling thread issues commands while the receiver runs and *)
(* the controller sends nothing, a status update, or a status update the   *)
(* receiver cannot unpack.                                                 *)
(***************************************************************************)
CmdKinds == {"S100", "S12"}

NextCmd == (\E k \in CmdKinds : ControllerSend(k, MaxApiFrames)) \/ Receiver \/ Commands

SpecCmd == Init /\ [][NextCmd]_vars

\* The frames the command operations build, for the arguments the callers pass.
CommandFrames ==
  {SendShortBytes(MGMSG_MOD_IDENTIFY, \h00, \h00),
   SendShortBytes(MGMSG_HW_STOP_UPDATEMSGS, \h00, \h00),
   SendShortBytes(MGMSG_MOT_MOVE_HOME, chan, \h00),
   SendShortBytes(MGMSG_MOT_MOVE_RELATIVE, chan, \h00),
   SendShortBytes(MGMSG_MOT_MOVE_ABSOLUTE, chan, \h00)}
  \cup {SendShortBytes(MGMSG_HW_START_UPDATEMSGS, freq, \h00) : freq \in Freqs}
  \cup {SendLongBytes(MGMSG_MOT_SET_MOVERELPARAMS, PackH(chan) \o Packl(dist)) : dist \in Dists}
  \cup {SendLongBytes(MGMSG_MOT_SET_MOVEABSPARAMS, PackH(chan) \o Packl(dist)) : dist \in Dists}

\* The length of the frame that starts with the header b, by the protocol:
\* 6 bytes, plus the 16-bit length field when the destination has its high bit set.
ProtocolLen(b) ==
  IF b[5] >= 128 THEN HEADER_SIZE + UnpackH(SubSeq(b, 3, 4)) ELSE HEADER_SIZE

(***************************************************************************)
(* C11.  A command operation is one write of one frame: every step that    *)
(* touches the serial output writes exactly one complete frame of a        *)
(* command (one more write, no second one), reads nothing from the line,   *)
(* and changes nothing of the receiver, the shared state or the queries.   *)
(* It waits for nothing: whenever the calling thread is idle a command can *)
(* be issued and completes in that step, whatever the receiver is doing    *)
(* (holding the lock, stalled, ended) and whether or not the controller    *)
(* has sent anything.                                                      *)
(***************************************************************************)
C11_SendAndForget ==
  /\ [][ (n_writes' # n_writes \/ ser_out' # ser_out)
           => /\ n_writes' = n_writes + 1
              /\ ser_out' \in CommandFrames
              /\ Len(ser_out') = ProtocolLen(ser_out')
              /\ UNCHANGED <<wire, sent, recv_vars, shared_vars, applied, dispatched,
                             call_vars>> ]_vars
  /\ [](cpc = "idle" /\ n_writes < MaxWrites => ENABLED Commands)

\* A command has been written and the call has returned although the
\* controller never sent a byte.
C11_Witness ==
  /\ sent = <<>>
  /\ n_writes = MaxWrites
  /\ ser_out = SendLongBytes(MGMSG_MOT_SET_MOVERELPARAMS, PackH(chan) \o Packl(100))
  /\ cpc = "idle"

(***************************************************************************)
(* The derived queries, lines 214-245.  Each calls get_raw_status once     *)
(* (acquire, read the field, release) and computes its result from that    *)
(* one value with the status register masks of lines 33-37.                *)
(***************************************************************************)
STATUS_HOMING == \h200
STATUS_HOMED == \h400
STATUS_MOVING == \h0F0
STATUS_LLIM == \h001
STATUS_ULIM == \h002

\* raw_status & mask, for a mask below 2^16: the high half contributes nothing
StatusAnd(raw_status, mask) == BitAnd(raw_status.lo, mask)

\* A changed get_home_state: the homed bit is looked at first.
get_home_state_HomedFirst(raw_status) ==
  LET is_home == StatusAnd(raw_status, STATUS_HOMED)
      is_homing == StatusAnd(raw_status, STATUS_HOMING)
  IN IF is_home # 0 THEN 0 ELSE IF is_homing # 0 THEN 2 ELSE 1

get_home_state(raw_status) ==
  LET is_home == StatusAnd(raw_status, STATUS_HOMED)
      is_homing == StatusAnd(raw_status, STATUS_HOMING)
  IN IF is_homing # 0 THEN 2 ELSE IF ~(is_home # 0) THEN 1 ELSE 0

\* A changed is_moving: a status that is still the initial value counts as unknown.
is_moving_UnknownIsFalse(raw_status) ==
  raw_status # INIT_STATUS /\ StatusAnd(raw_status, STATUS_MOVING) # 0

is_moving(raw_status) == StatusAnd(raw_status, STATUS_MOVING) # 0

is_lower_limit(raw_status) == StatusAnd(raw_status, STATUS_LLIM) # 0

is_upper_limit(raw_status) == StatusAnd(raw_status, STATUS_ULIM) # 0

DerivedOps == {"get_home_state", "is_moving", "is_lower_limit", "is_upper_limit"}

\* what the derived query op returns for the value get_raw_status gave it
Derived(op, raw_status) ==
  CASE op = "get_home_state" -> get_home_state(raw_status)
    [] op = "is_moving" -> is_moving(raw_status)
    [] op = "is_lower_limit" -> is_lower_limit(raw_status)
    [] op = "is_upper_limit" -> is_upper_limit(raw_status)

\* op is called and calls get_raw_status: self.__param_lock.acquire()
DerivedAcquire(op) ==
  /\ cpc = "idle"
  /\ param_lock = "free"
  /\ param_lock' = "caller"
  /\ c_op' = op
  /\ cpc' = "derived_read"
  /\ UNCHANGED <<wire, sent, recv_vars, pos, status, applied, dispatched,
                 c_val, ret_pos, ret_status, out_vars, ret_derived, main_vars>>

\* status = self.__status
DerivedRead ==
  /\ cpc = "derived_read"
  /\ c_val' = <<status>>
  /\ cpc' = "derived_release"
  /\ UNCHANGED <<wire, sent, recv_vars, shared_vars, applied, dispatched,
                 ret_pos, ret_status, out_vars, ext_vars>>

\* self.__param_lock.release() ; return status ; the query computes and returns
DerivedRelease ==
  /\ cpc = "derived_release"
  /\ param_lock' = "free"
  /\ ret_status' = c_val
  /\ ret_derived' = <<c_op, Derived(c_op, c_val[1])>>
  /\ c_val' = NoVal
  /\ c_op' = "none"
  /\ cpc' = "idle"
  /\ UNCHANGED <<wire, sent, recv_vars, pos, status, applied, dispatched,
                 ret_pos, out_vars, main_vars>>

DerivedQueries == (\E op \in DerivedOps : DerivedAcquire(op)) \/ DerivedRead \/ DerivedRelease

(***************************************************************************)
(* SpecQuery: the derived queries applied to a status word.  The word is   *)
(* the initial one or any combination of the bits the masks look at, with  *)
(* the high half clear or not, as a status update can have stored it.      *)
(***************************************************************************)
StatusInputs ==
  {[hi |-> h, lo |-> a + b + c + d + e + f] :
     h \in {0, \h8000}, a \in {0, \h001}, b \in {0, \h002}, c \in {0, \h010},
     d \in {0, \h080}, e \in {0, \h200}, f \in {0, \h400}}
  \cup {INIT_STATUS}

InitQuery ==
  /\ status \in StatusInputs
  /\ wire = <<>> /\ sent = <<>> /\ in_buffer = <<>> /\ hdr = NoVal /\ raw_hdr = <<>>
  /\ msg_len = 0 /\ dec = NoVal /\ rpc = "loop" /\ param_lock = "free"
  /\ pos = INIT_POS /\ applied = <<>> /\ dispatched = <<>>
  /\ cpc = "idle" /\ c_val = NoVal /\ ret_pos = NoVal /\ ret_status = NoVal
  /\ ser_out = <<>> /\ n_writes = 0
  /\ c_op = "none" /\ ret_derived = NoVal
  /\ prog = "none" /\ step_size = NoVal /\ old_step_size = NoVal /\ null_point = NoVal
  /\ n_iter = 0 /\ calls = <<>>

NextQuery == DerivedQueries

SpecQuery == InitQuery /\ [][NextQuery]_vars

\* bit number i (0 = lowest) of the low half of a status word
Bit(raw_status, i) == (raw_status.lo \div (2 ^ i)) % 2 = 1

(***************************************************************************)
(* C12.  What get_home_state returns is a function of the one status value *)
(* its get_raw_status call returned: 2 (homing) when bit 0x200 is set,     *)
(* whatever bit 0x400 is; 1 (needs homing) when both are clear; 0 (homed)  *)
(* otherwise.  In particular 0x200 and 0x600 give 2, 0x000 gives 1 and     *)
(* 0x400 gives 0.                                                          *)
(***************************************************************************)
C12_HomeState ==
  (ret_derived # NoVal /\ ret_derived[1] = "get_home_state")
    => LET raw == ret_status[1]
           r == ret_derived[2]
       IN /\ raw = status
          /\ r = (IF Bit(raw, 9) THEN 2 ELSE IF ~Bit(raw, 10) THEN 1 ELSE 0)
          /\ raw = [hi |-> 0, lo |-> \h200] => r = 2
          /\ raw = [hi |-> 0, lo |-> \h600] => r = 2
          /\ raw = [hi |-> 0, lo |-> \h000] => r = 1
          /\ raw = [hi |-> 0, lo |-> \h400] => r = 0

\* get_home_state has returned 2 for the status 0x600, both bits set.
C12_Witness ==
  /\ ret_derived = <<"get_home_state", 2>>
  /\ ret_status = <<[hi |-> 0, lo |-> \h600]>>
  /\ cpc = "idle"

(***************************************************************************)
(* C19.  While the status is still the initial 0xFFFFFFFF, every bit the   *)
(* masks look at reads as set: get_home_state returns 2 (homing) and       *)
(* is_moving, is_lower_limit and is_upper_limit all return true.           *)
(***************************************************************************)
C19_SentinelDerived ==
  (ret_derived # NoVal /\ ret_status = <<INIT_STATUS>>)
    => CASE ret_derived[1] = "get_home_state" -> ret_derived[2] = 2
         [] OTHER -> ret_derived[2] = TRUE

\* is_moving has returned true for the initial status.
C19_Witness ==
  /\ status = INIT_STATUS
  /\ ret_status = <<INIT_STATUS>>
  /\ ret_derived = <<"is_moving", TRUE>>
  /\ cpc = "idle"

(***************************************************************************)
(* SpecMove: set_move called with distances over the signed 32-bit range:  *)
(* both ends, both signs, and magnitudes that use every byte position.     *)
(***************************************************************************)
MoveMagnitudes ==
  {0, 1, 2, 100, 127, 128, 129, 255, 256, 257, 32767, 32768, 65535, 65536, 65537,
   8388607, 8388608, 16777215, 16777216, 16777217, 16909060, 305419896,
   1073741823, 1073741824, 2147483391, 2147483646, 2147483647}

MoveDists == {m : m \in MoveMagnitudes} \cup {-m : m \in MoveMagnitudes} \cup {-2147483647 - 1}

NextMove == \E dist \in MoveDists, rel \in BOOLEAN : set_move(dist, rel)

SpecMove == Init /\ [][NextMove]_vars

(***************************************************************************)
(* C13.  set_move(dist, rel) writes one long frame of 12 bytes: message id *)
(* 0x0445 if rel else 0x0450, length field 6 = the payload length,         *)
(* destination byte = the configured destination with the high bit set,    *)
(* source = this endpoint, and a payload that decodes (u16 then i32,       *)
(* little-endian) to channel 1 and the very distance passed, for every     *)
(* distance of the signed 32-bit range.                                    *)
(***************************************************************************)
C13_SetMoveRoundTrip ==
  [][ \A dist \in MoveDists, rel \in BOOLEAN :
        set_move(dist, rel)
          => LET f == ser_out'
             IN /\ Len(f) = HEADER_SIZE + 6
                /\ UnpackH(SubSeq(f, 1, 2)) = (IF rel THEN \h0445 ELSE \h0450)
                /\ UnpackH(SubSeq(f, 3, 4)) = Len(f) - HEADER_SIZE
                /\ f[5] >= 128 /\ f[5] - 128 = dst
                /\ f[6] = src
                /\ UnpackH(SubSeq(f, 7, 8)) = 1
                /\ Unpackl(SubSeq(f, 9, 12)) = dist ]_vars

\* set_move(-2^31, False) has written its frame.
C13_Witness ==
  /\ n_writes = 1
  /\ ser_out = <<\h50, \h04, \h06, \h00, \hD0, \h01, \h01, \h00, \h00, \h00, \h00, \h80>>

(***************************************************************************)
(* SpecRoundTrip: the six bytes the short-frame encoder packs for a        *)
(* message id, two parameters, a destination and a source are put on the   *)
(* line the receiver reads, and the receiver parses them.                  *)
(***************************************************************************)
\* struct.pack("<HBBBB", msg_id, param1, param2, d, s): line 82 for any destination and source
EncodeShort(msg_id, param1, param2, d, s) ==
  PackH(msg_id) \o PackB(param1) \o PackB(param2) \o PackB(d) \o PackB(s)

MsgIdInputs == {\h0000, \h0011, \h0223, \h0464, \h0481, \h8000, \hFFFF}
ParamInputs == {\h00, \h01, \h0E, \hFF}
DstInputs == {\h00, \h01, \h50, \h7F, \h80, \h81, \hD0, \hFF}
SrcInputs == {\h00, \h01, \h50, \h80, \hFF}

Loopback(msg_id, param1, param2, d, s) ==
  /\ sent = <<>>
  /\ wire' = EncodeShort(msg_id, param1, param2, d, s)
  /\ sent' = <<<<msg_id, param1, param2, d, s>>>>
  /\ UNCHANGED <<recv_vars, shared_vars, applied, dispatched, call_vars, out_vars, ext_vars>>

NextRoundTrip ==
  \/ \E msg_id \in MsgIdInputs, param1 \in ParamInputs, param2 \in ParamInputs,
        d \in DstInputs, s \in SrcInputs : Loopback(msg_id, param1, param2, d, s)
  \/ \E n \in 0..READ_SIZE : RecvIter(n)

SpecRoundTrip == Init /\ [][NextRoundTrip]_vars

\* The receiver has parsed the header of the encoded frame.
ParsedEncoded ==
  /\ sent # <<>>
  /\ hdr # NoVal
  /\ raw_hdr = EncodeShort(sent[1][1], sent[1][2], sent[1][3], sent[1][4], sent[1][5])

(***************************************************************************)
(* C14 as stated: for every message id in 0..65535 and every param1,       *)
(* param2, destination and source in 0..255, the receiver's header parse   *)
(* of the six encoded bytes yields the same five values.                   *)
(***************************************************************************)
C14_ShortRoundTrip == ParsedEncoded => hdr = sent[1]

(***************************************************************************)
(* C14, amended.  The header parse of the six encoded bytes yields the     *)
(* same message id, param1, param2 and source, and the destination with    *)
(* its high bit cleared: the same destination for 0..127, and the          *)
(* destination minus 128 for 128..255.                                     *)
(***************************************************************************)
C14_ShortRoundTripLow7 ==
  ParsedEncoded
    => LET in == sent[1]
       IN /\ hdr[1] = in[1] /\ hdr[2] = in[2] /\ hdr[3] = in[3] /\ hdr[5] = in[5]
          /\ in[4] < 128 => hdr = in
          /\ in[4] >= 128 => hdr[4] = in[4] - 128

\* A header encoded with destination 0x81 has been parsed as destination 0x01.
C14_Witness ==
  /\ sent = <<<<\h0481, \h0E, \h00, \h81, \h50>>>>
  /\ hdr = <<\h0481, \h0E, \h00, \h01, \h50>>
  /\ raw_hdr = <<\h81, \h04, \h0E, \h00, \h81, \h50>>

(***************************************************************************)
(* SpecBuf: the receiver fed with a valid status update, a correctly       *)
(* addressed frame with a message id __recv does not know, a frame for     *)
(* another destination, a move-homed header the receiver holds as          *)
(* incomplete, and a burst of three stray bytes.                           *)
(***************************************************************************)
BufKinds == {"S100", "UNK", "SDST", "MH1", "G3"}

NextBuf == (\E k \in BufKinds : ControllerSend(k, MaxFrames)) \/ Receiver

SpecBuf == Init /\ [][NextBuf]_vars

\* In a step of the receiver's loop: the bytes the read returned, and the
\* buffer after they were appended.
ReadNow == SubSeq(wire, 1, Len(wire) - Len(wire'))
BufNow == in_buffer \o ReadNow
LoopStep == rpc = "loop" /\ sent' = sent

\* The six bytes b are a header addressed to this endpoint by the controller.
ForUs(b) == b[5] % 128 = \h01 /\ b[6] = \h50

(***************************************************************************)
(* C15.  Coarse resync: in an iteration where the header at the front of   *)
(* the buffer fails the address check, or is the header of a complete,     *)
(* correctly addressed frame whose message id is none of status update,    *)
(* move completed, move homed, the receiver empties the whole buffer,      *)
(* whatever is behind that header: a complete valid status frame buffered  *)
(* behind it is gone from the buffer and the line, and neither the shared  *)
(* state nor the log of stored updates changes.                            *)
(***************************************************************************)
C15_CoarseResync ==
  [][ ( /\ LoopStep
        /\ Len(BufNow) >= HEADER_SIZE
        /\ \/ ~ForUs(BufNow)
           \/ /\ Len(BufNow) >= msg_len'
              /\ UnpackH(SubSeq(BufNow, 1, 2)) \notin {\h0481, \h0464, \h0444} )
      => /\ in_buffer' = <<>>
         /\ rpc' = "loop"
         /\ UNCHANGED <<pos, status, param_lock, applied, dispatched>> ]_vars

\* An unknown frame and a status update behind it were read, the buffer was
\* emptied on the unknown header, and the update was never stored.
C15_Witness ==
  /\ sent = <<"UNK", "S100">>
  /\ wire = <<>> /\ in_buffer = <<>> /\ rpc = "loop"
  /\ hdr = <<MGMSG_MOD_IDENTIFY, \h00, \h00, src, dst>>
  /\ applied = <<>> /\ dispatched = <<>>
  /\ pos = INIT_POS /\ status = INIT_STATUS

\* The bytes of the line the receiver has read so far.
ReadSoFar == SubSeq(Cat(sent), 1, Len(Cat(sent)) - Len(wire))

IsSuffix(a, b) == Len(a) <= Len(b) /\ a = SubSeq(b, Len(b) - Len(a) + 1, Len(b))

(***************************************************************************)
(* C17.  The receive buffer is always a contiguous segment of the byte     *)
(* stream of the line that ends at the last byte read (the empty buffer    *)
(* included), and the line still holds exactly the bytes not read yet.     *)
(* A step changes the buffer only by appending the bytes just read at the  *)
(* back, by removing the computed frame length from the front (of the      *)
(* buffer with the bytes just read appended), or by dropping all of it:    *)
(* nothing is reordered, duplicated or removed from the middle.            *)
(***************************************************************************)
C17_BufferIsSegment ==
  /\ [](IsSuffix(wire, Cat(sent)) /\ IsSuffix(in_buffer, ReadSoFar))
  /\ [][ in_buffer' # in_buffer
           => \/ in_buffer' = BufNow /\ ReadNow # <<>>
              \/ in_buffer' = SliceFrom(BufNow, msg_len') /\ msg_len' >= HEADER_SIZE
              \/ in_buffer' = <<>> ]_vars

\* A status update was removed from the front of the buffer and the header
\* read behind it is what the buffer holds.
C17_Witness ==
  /\ sent = <<"S100", "MH1">>
  /\ wire = <<>>
  /\ dispatched = <<MGMSG_MOT_GET_STATUSUPDATE>>
  /\ in_buffer = Frame("MH1")
  /\ rpc = "loop"

\* The frame length __recv computes for the header b: for every header the
\* six bytes plus the 16-bit value of the two parameter bytes.
Declared(b) == HEADER_SIZE + UnpackH(SubSeq(b, 3, 4))

\* The buffer starts with a header addressed to this endpoint whose frame is
\* not all there yet.
Stalled ==
  /\ rpc = "loop"
  /\ Len(in_buffer) >= HEADER_SIZE
  /\ ForUs(in_buffer)
  /\ Len(in_buffer) < Declared(in_buffer)

LockKinds == {"S100", "MH1"}

NextLock ==
  \/ \E k \in LockKinds : ControllerSend(k, MaxApiFrames)
  \/ Receiver
  \/ Queries
  \/ identify

SpecLock ==
  /\ Init
  /\ [][NextLock]_vars
  /\ SF_vars(RecvAcquire)
  /\ WF_vars(RecvSetPos) /\ WF_vars(RecvSetStatus) /\ WF_vars(RecvRelease)
  /\ WF_vars(GetPosRead) /\ WF_vars(GetPosRelease)
  /\ WF_vars(GetRawStatusRead) /\ WF_vars(GetRawStatusRelease)

\* The lock is held exactly while its holder is between acquire and release:
\* the receiver across the two assignments, the caller across its one read.
LockHeldOnlyInside ==
  /\ param_lock \in {"free", "recv", "caller"}
  /\ param_lock = "recv" <=> rpc \in {"set_pos", "set_status", "release"}
  /\ param_lock = "caller"
       <=> cpc \in {"pos_read", "pos_release", "status_read", "status_release"}
  /\ ~(rpc \in {"set_pos", "set_status", "release"}
         /\ cpc \in {"pos_read", "pos_release", "status_read", "status_release"})

STEP_SIZE == 100
NUM_READINGS == 1000

\* the keys scr.getch() returns: none (-1), 1, 2, 9, r, space, h, n, z, 0, q, escape
MainKeys == {-1, 49, 50, 57, 114, 32, 104, 110, 122, 48, 113, 27}

\* The commands of a program step, as <<name, dist, rel>>, and their frames.
CmdFrame(c) ==
  CASE c[1] = "set_move" ->
         SendLongBytes(IF c[3] THEN MGMSG_MOT_SET_MOVERELPARAMS ELSE MGMSG_MOT_SET_MOVEABSPARAMS,
                       PackH(chan) \o Packl(c[2]))
    [] c[1] = "do_move" ->
         SendShortBytes(IF c[3] THEN MGMSG_MOT_MOVE_RELATIVE ELSE MGMSG_MOT_MOVE_ABSOLUTE,
                        chan, \h00)
    [] c[1] = "home" -> SendShortBytes(MGMSG_MOT_MOVE_HOME, chan, \h00)
    [] c[1] = "en_update_msg" -> SendShortBytes(MGMSG_HW_START_UPDATEMSGS, c[2], \h00)

IsMoveCall(c) == c[1] \in {"set_move", "do_move"}

\* the commands cmds are issued in order: written, counted, and the moves logged
Issue(cmds) ==
  /\ ser_out' = IF cmds = <<>> THEN ser_out ELSE CmdFrame(cmds[Len(cmds)])
  /\ n_writes' = n_writes + Len(cmds)
  /\ calls' = calls \o [i \in 1..Len(SelectSeq(cmds, IsMoveCall)) |->
                          <<SelectSeq(cmds, IsMoveCall)[i][1], SelectSeq(cmds, IsMoveCall)[i][3]>>]

\* main, lines 252-259: mtr = KST101() ; mtr.en_update_msg(True) ; the locals
MainStart ==
  /\ prog = "none"
  /\ prog' = "main"
  /\ step_size' = 1
  /\ old_step_size' = -1
  /\ null_point' = 0
  /\ Issue(<<<<"en_update_msg", 64, TRUE>>>>)
  /\ UNCHANGED <<wire, sent, recv_vars, shared_vars, applied, dispatched, call_vars,
                 derived_vars, n_iter>>

\* the status line of main, lines 298-308: the last derived query it makes
MainLastDerived ==
  LET home_state == get_home_state(status)
  IN IF home_state = 2 \/ home_state = 1 THEN <<"get_home_state", home_state>>
     ELSE IF is_lower_limit(status) THEN <<"is_lower_limit", TRUE>>
     ELSE IF is_upper_limit(status) THEN <<"is_upper_limit", TRUE>>
     ELSE <<"is_moving", is_moving(status)>>

\* main, lines 261-318: one iteration of the while loop with the key in_key
MainIter(in_key) ==
  /\ prog = "main"
  /\ n_iter < MaxIters
  /\ param_lock = "free"
  /\ LET p == pos
         keyed_size ==
           CASE in_key = 49 -> 1
             [] in_key = 50 -> 10
             [] in_key = 51 -> 100
             [] in_key = 52 -> 1000
             [] in_key = 53 -> 10000
             [] in_key = 54 -> 100000
             [] in_key = 55 -> 1000000
             [] in_key = 56 -> 10000000
             [] in_key = 57 -> 100000000
             [] in_key = 114 -> step_size * (-1)
             [] OTHER -> step_size
         keyed_null ==
           CASE in_key = 110 -> p
             [] in_key = 122 -> 0
             [] OTHER -> null_point
         keyed_cmds ==
           CASE in_key = 32 -> <<<<"do_move", 0, TRUE>>>>
             [] in_key = 104 -> <<<<"home", 0, TRUE>>>>
             [] in_key = 48 -> << <<"set_move", null_point, FALSE>>, <<"do_move", 0, FALSE>>,
                                  <<"set_move", step_size, TRUE>> >>
             [] OTHER -> <<>>
     IN /\ n_iter' = n_iter + 1
        /\ ret_pos' = <<p>>
        /\ IF in_key = 113 \/ in_key = 27
           THEN \* break
                /\ prog' = "main_done"
                /\ UNCHANGED <<step_size, old_step_size, null_point, ser_out, n_writes,
                               calls, ret_status, ret_derived>>
           ELSE /\ prog' = "main"
                /\ step_size' = keyed_size
                /\ null_point' = keyed_null
                /\ old_step_size' = keyed_size
                /\ Issue(keyed_cmds \o (IF keyed_size # old_step_size
                                        THEN <<<<"set_move", keyed_size, TRUE>>>>
                                        ELSE <<>>))
                /\ ret_derived' = MainLastDerived
                /\ ret_status' = <<status>>
  /\ UNCHANGED <<wire, sent, recv_vars, shared_vars, applied, dispatched, cpc, c_val, c_op>>

\* RunExperiment.main, lines 14-17: mtr = KST101() ; en_update_msg(True) ; set_move(STEP_SIZE)
SweepStart ==
  /\ prog = "none"
  /\ prog' = "sweep"
  /\ Issue(<< <<"en_update_msg", 64, TRUE>>, <<"set_move", STEP_SIZE, TRUE>> >>)
  /\ UNCHANGED <<wire, sent, recv_vars, shared_vars, applied, dispatched, call_vars,
                 derived_vars, step_size, old_step_size, null_point, n_iter>>

\* RunExperiment.main, lines 18-23: one reading: do_move(), sleep, read the ADC
SweepIter ==
  /\ prog = "sweep"
  /\ n_iter < NUM_READINGS
  /\ n_iter' = n_iter + 1
  /\ Issue(<<<<"do_move", 0, TRUE>>>>)
  /\ UNCHANGED <<wire, sent, recv_vars, shared_vars, applied, dispatched, call_vars,
                 derived_vars, prog, step_size, old_step_size, null_point>>

\* RunExperiment.main, lines 24-25: the readings are plotted and the program ends
SweepEnd ==
  /\ prog = "sweep"
  /\ n_iter = NUM_READINGS
  /\ prog' = "sweep_done"
  /\ UNCHANGED <<wire, sent, recv_vars, shared_vars, applied, dispatched, call_vars,
                 out_vars, derived_vars, step_size, old_step_size, null_point, n_iter, calls>>

NextMain ==
  \/ MainStart
  \/ \E in_key \in MainKeys : MainIter(in_key)
  \/ SweepStart
  \/ SweepIter
  \/ SweepEnd

SpecMain == Init /\ [][NextMain]_vars

(***************************************************************************)
(* C16.  In the interactive harness and in the sweep script, every call    *)
(* do_move(rel) comes after at least one set_move call with the same rel,  *)
(* for every sequence of keys from the start of the program.               *)
(***************************************************************************)
C16_DoMoveAfterSetMove ==
  \A i \in DOMAIN calls :
    calls[i][1] = "do_move"
      => \E j \in 1..(i - 1) : calls[j] = <<"set_move", calls[i][2]>>

====
